---- MODULE Spec2Model ----
(***************************************************************************)
(* Model of sopa's patch consolidation code:                               *)
(*   - sopa/segmentation/shapes.py: _ensure_polygon, solve_conflicts       *)
(*   - sopa/segmentation/methods/_baysor.py: baysor, BaysorPatch.__call__  *)
(*                                                                         *)
(* Geometry is modelled on RingSize unit blocks laid around a centre      *)
(* block: block b borders blocks b-1 and b+1 (modulo RingSize) and the     *)
(* centre.  A polygon is a record [type, shell, holes]: shell is the set   *)
(* of blocks enclosed by its exterior ring, holes the blocks of the shell  *)
(* that carry an interior ring.  Every block is made of two half-blocks    *)
(* <<b, 0>> and <<b, 1>>; a hole in a block of the ring removes <<b, 1>>,  *)
(* a hole at the centre removes the centre.  Areas, unions and             *)
(* intersections are computed on sets of half-blocks.  A polygon is valid  *)
(* when its shell is one run of consecutive blocks; a shell of several     *)
(* runs stands for a self-intersecting ring.  A run that closes the ring   *)
(* encloses the centre.                                                    *)
(***************************************************************************)
EXTENDS Integers, Sequences, FiniteSets, TLC

VARIABLES
    \* ---- _ensure_polygon, applied once and twice
    geom, once, twice, cpc,
    \* ---- solve_conflicts
    cells, n_cells, threshold, patch_indices, return_indices,
    resolved_indices, conflicts, pc, result, absorbed,
    \* ---- baysor / BaysorPatch
    force, recover, delete_cache, loom, loom0, dirs, status, calls,
    results, bpc, error,
    \* ---- geometrize
    mask, thin, geo_df, gpc

canonVars == <<geom, once, twice, cpc>>
solveVars == <<cells, n_cells, threshold, patch_indices, return_indices,
               resolved_indices, conflicts, pc, result, absorbed>>
baysorVars == <<force, recover, delete_cache, loom, loom0, dirs, status,
                calls, results, bpc, error>>
maskVars == <<mask, thin, geo_df, gpc>>
vars == <<canonVars, solveVars, baysorVars, maskVars>>

----------------------------------------------------------------------------
(* Bounds *)

\* blocks around the centre
RingSize == 10
\* the inputs of _ensure_polygon lie on the blocks 0..CanonWidth-1
CanonWidth == 3
\* the cells of solve_conflicts lie on the blocks 0..Width-1 (SpecSolve)
Width == 7
\* smallest and largest number of blocks of an input cell of solve_conflicts
MinLen == 2
MaxLen == 4
\* largest number of input cells of solve_conflicts (SpecSolve)
MaxCells == 3
\* number of cells around the centre (SpecRing)
RingCells == 4
\* number of patch directories of a baysor run
NumPatches == 3
\* number of pixels of a mask, and its largest label
MaskLen == 5
MaxLabel == 2

----------------------------------------------------------------------------
(* Geometry values *)

None == "None"

Min2(a, b) == IF a <= b THEN a ELSE b

Polygon(shell, holes) == [type |-> "Polygon", shell |-> shell, holes |-> holes]
EmptyPolygon == Polygon({}, {})
MultiPolygon(gs) == [type |-> "MultiPolygon", geoms |-> gs]
GeometryCollection(gs) == [type |-> "GeometryCollection", geoms |-> gs]
LineString == [type |-> "LineString"]

IsPolygon(g) == g.type = "Polygon"
IsMultiPolygon(g) == g.type = "MultiPolygon"
IsGeometryCollection(g) == g.type = "GeometryCollection"

Range(s) == {s[i] : i \in 1..Len(s)}

\* the half-blocks covered by a polygon
PolyRegion(p) ==
    {<<b, 0>> : b \in {c \in p.shell : c < RingSize \/ c \notin p.holes}}
    \cup {<<b, 1>> : b \in p.shell \ p.holes}

\* the half-blocks covered by a geometry (lines and points cover none)
RECURSIVE Region(_)
Region(g) ==
    IF IsPolygon(g) THEN PolyRegion(g)
    ELSE IF IsMultiPolygon(g) \/ IsGeometryCollection(g)
         THEN UNION {Region(g.geoms[i]) : i \in 1..Len(g.geoms)}
         ELSE {}

\* shapely's .area
Area(g) == Cardinality(Region(g))

\* shapely's .is_empty
IsEmpty(g) == Region(g) = {} /\ g.type \in {"Polygon", "MultiPolygon", "GeometryCollection"}

Blocks == 0..(RingSize - 1)
Centre == RingSize

Prev(b) == (b + RingSize - 1) % RingSize
Dist(a, b) == (b - a + RingSize) % RingSize

\* two blocks share a border
Adjacent(a, b) ==
    \/ a = Centre /\ b # Centre
    \/ b = Centre /\ a # Centre
    \/ a # Centre /\ b # Centre /\ (Prev(a) = b \/ Prev(b) = a)

\* the elements of a finite set of integers in ascending order
RECURSIVE Sorted(_)
Sorted(S) ==
    IF S = {} THEN <<>>
    ELSE LET m == CHOOSE a \in S : \A b \in S : a <= b
         IN <<m>> \o Sorted(S \ {m})

\* the blocks of S (a set of blocks of the ring) that start a run
Starts(S) == {a \in S : Prev(a) \notin S}

\* the run of S that starts at a
RunFrom(S, a) == {b \in S : \A k \in 0..Dist(a, b) : ((a + k) % RingSize) \in S}

\* the maximal runs of consecutive blocks of S, by first block
Runs(S) ==
    IF S = {} THEN <<>>
    ELSE IF Starts(S) = {} THEN <<S>>
    ELSE LET first == Sorted(Starts(S))
         IN [i \in 1..Len(first) |-> RunFrom(S, first[i])]

IsRun(S) == S # {} /\ Cardinality(Starts(S)) <= 1

\* the geometry covering a set of half-blocks: one polygon per run; the one
\* run that closes the ring encloses the centre, as a hole unless R covers it
FromRegion(R) ==
    LET ring == {b \in Blocks : <<b, 0>> \in R}
        holesOf(run) == {b \in run : <<b, 1>> \notin R}
        runs == Runs(ring)
    IN IF ring = {} THEN EmptyPolygon
       ELSE IF ring = Blocks
       THEN Polygon(Blocks \cup {Centre},
                    holesOf(Blocks) \cup (IF <<Centre, 0>> \in R THEN {} ELSE {Centre}))
       ELSE IF Len(runs) = 1 THEN Polygon(runs[1], holesOf(runs[1]))
       ELSE MultiPolygon([i \in 1..Len(runs) |-> Polygon(runs[i], holesOf(runs[i]))])

\* shapely's validity: a ring does not cross itself, the members of a
\* multi-polygon neither overlap nor share a border
RECURSIVE IsValid(_)
IsValid(g) ==
    IF IsPolygon(g)
    THEN \/ g.shell = {}
         \/ /\ IsRun(g.shell \ {Centre})
            /\ (Centre \in g.shell) <=> (g.shell \ {Centre} = Blocks)
    ELSE IF IsMultiPolygon(g)
         THEN /\ \A i \in 1..Len(g.geoms) : IsValid(g.geoms[i]) /\ g.geoms[i].shell # {}
              /\ \A i, j \in 1..Len(g.geoms) :
                    i # j => \A a \in g.geoms[i].shell, b \in g.geoms[j].shell :
                                a # b /\ ~Adjacent(a, b)
         ELSE IF IsGeometryCollection(g)
              THEN \A i \in 1..Len(g.geoms) : IsValid(g.geoms[i])
              ELSE TRUE

\* shapely.make_valid: a valid geometry is returned as it is; an invalid
\* polygon or multi-polygon is rebuilt from the region it covers
RECURSIVE make_valid(_)
make_valid(g) ==
    IF IsValid(g) THEN g
    ELSE IF IsPolygon(g) \/ IsMultiPolygon(g) THEN FromRegion(Region(g))
    ELSE IF IsGeometryCollection(g)
         THEN GeometryCollection([i \in 1..Len(g.geoms) |-> make_valid(g.geoms[i])])
         ELSE g

\* Python's max(seq, key=area): the first element of greatest area
MaxByArea(gs) ==
    LET i == CHOOSE k \in 1..Len(gs) :
                /\ \A j \in 1..Len(gs) : Area(gs[j]) <= Area(gs[k])
                /\ \A j \in 1..(k - 1) : Area(gs[j]) < Area(gs[k])
    IN gs[i]

\* the members of a sequence that satisfy Test, in order
RECURSIVE SelectType(_, _)
SelectType(gs, t) ==
    IF gs = <<>> THEN <<>>
    ELSE (IF Head(gs).type = t THEN <<Head(gs)>> ELSE <<>>) \o SelectType(Tail(gs), t)

\* the members of the multi-polygons of a sequence, flattened
RECURSIVE Flatten(_)
Flatten(ms) == IF ms = <<>> THEN <<>> ELSE Head(ms).geoms \o Flatten(Tail(ms))

\* Polygon(list(cell.exterior.coords)): the exterior ring alone
ExteriorOnly(p) == Polygon(p.shell, {})

_ensure_polygon(cell0) ==
    LET cell == make_valid(cell0)
    IN IF IsPolygon(cell)
       THEN (IF cell.holes # {} THEN ExteriorOnly(cell) ELSE cell)
       ELSE IF IsMultiPolygon(cell)
       THEN MaxByArea(cell.geoms)
       ELSE IF IsGeometryCollection(cell)
       THEN LET polys == SelectType(cell.geoms, "Polygon")
                multi == Flatten(SelectType(cell.geoms, "MultiPolygon"))
            IN IF polys # <<>> THEN MaxByArea(polys)
               ELSE IF multi # <<>> THEN MaxByArea(multi)
               ELSE EmptyPolygon
       ELSE EmptyPolygon

----------------------------------------------------------------------------
(* Inputs of _ensure_polygon *)

\* every polygon over the blocks 0..w-1, valid or not, with or without holes
Polygons(w) == {Polygon(sh, ho) : <<sh, ho>> \in
                    {sh_ho \in (SUBSET (0..(w - 1))) \X (SUBSET (0..(w - 1))) :
                        sh_ho[2] \subseteq sh_ho[1]}}

\* the non-empty valid ones
ValidPolygons(w) == {p \in Polygons(w) : p.shell # {} /\ IsValid(p)}

\* multi-polygons of one or two members, valid or with overlapping members
MultiPolygons(w) ==
    {MultiPolygon(<<p>>) : p \in ValidPolygons(w)}
    \cup {MultiPolygon(<<p, q>>) : p \in ValidPolygons(w), q \in ValidPolygons(w)}

\* what a geometry collection may hold
Members(w) ==
    ValidPolygons(w) \cup {LineString}
    \cup {m \in MultiPolygons(w) : Len(m.geoms) = 2 /\ IsValid(m)}

GeometryCollections(w) ==
    {GeometryCollection(<<>>)}
    \cup {GeometryCollection(<<a>>) : a \in Members(w)}
    \cup {GeometryCollection(<<a, b>>) : a \in Members(w), b \in Members(w)}

Geometries(w) ==
    Polygons(w) \cup MultiPolygons(w) \cup GeometryCollections(w) \cup {LineString}

----------------------------------------------------------------------------
(* Idle values of the variables a specification does not use *)

\* patch_indices=None, and patch_indices given as an array of tags
NoPatchIndices == [is_none |-> TRUE, tags |-> <<>>]
PatchIndices(tags) == [is_none |-> FALSE, tags |-> tags]

\* nothing returned or raised yet
NoResult == [kind |-> "none"]

\* no exception raised by baysor
NoError == [raised |-> "none"]

CanonIdle ==
    /\ geom = None /\ once = None /\ twice = None /\ cpc = "idle"

SolveIdle ==
    /\ cells = <<>> /\ n_cells = 0 /\ threshold = <<1, 2>>
    /\ patch_indices = NoPatchIndices /\ return_indices = FALSE
    /\ resolved_indices = <<>> /\ conflicts = {} /\ pc = "idle" /\ result = NoResult
    /\ absorbed = {}

MaskIdle ==
    /\ mask = <<>> /\ thin = 0 /\ geo_df = <<>> /\ gpc = "idle"

BaysorIdle ==
    /\ force = FALSE /\ recover = FALSE /\ delete_cache = FALSE
    /\ loom = <<>> /\ loom0 = <<>> /\ dirs = <<>> /\ status = <<>>
    /\ calls = <<>> /\ results = <<>> /\ bpc = "idle" /\ error = NoError

----------------------------------------------------------------------------
(* _ensure_polygon applied to a geometry, then to its own result *)

CanonInit ==
    /\ geom \in Geometries(CanonWidth)
    /\ once = None /\ twice = None /\ cpc = "input"
    /\ SolveIdle /\ BaysorIdle /\ MaskIdle

CanonOnce ==
    /\ cpc = "input"
    /\ once' = _ensure_polygon(geom)
    /\ cpc' = "once"
    /\ UNCHANGED <<geom, twice, solveVars, baysorVars, maskVars>>

CanonTwice ==
    /\ cpc = "once"
    /\ twice' = _ensure_polygon(once)
    /\ cpc' = "twice"
    /\ UNCHANGED <<geom, once, solveVars, baysorVars, maskVars>>

CanonNext == CanonOnce \/ CanonTwice

SpecCanon == CanonInit /\ [][CanonNext]_vars

\* a single polygon made of an outer ring only
IsSimplePolygon(g) == IsPolygon(g) /\ g.holes = {} /\ IsValid(g)

(* C6: the result of _ensure_polygon is the empty polygon or a single
   polygon with an outer ring only; it never has an interior ring. *)
C6_NoHoleInResult ==
    cpc \in {"once", "twice"} => (once = EmptyPolygon \/ IsSimplePolygon(once))

(* C7: _ensure_polygon is idempotent: applying it to its own result gives
   that result again. *)
C7_Idempotent ==
    cpc = "twice" => twice = once

----------------------------------------------------------------------------
(* solve_conflicts *)

\* Python indices start at 0, sequences at 1
At(s, i) == s[i + 1]

\* np.arange(n)
arange(n) == [k \in 1..n |-> k - 1]

\* np.unique(a): the distinct values of a, ascending
unique(a) == Sorted(Range(a))

\* the predicate "intersects": the two geometries share at least a point;
\* neighbouring blocks share their common border
Intersects(c1, c2) ==
    \E a \in c1.shell, b \in c2.shell : a = b \/ Adjacent(a, b)

\* cell1.intersection(cell2).area
IntersectionArea(c1, c2) == Cardinality(Region(c1) \cap Region(c2))

\* cell1.union(cell2)
Union(c1, c2) == FromRegion(Region(c1) \cup Region(c2))

\* tree.query(cells, predicate="intersects"): every (i, j) with cells i and j
\* intersecting, (i, i) included
Query(cs) ==
    {ij \in (0..(Len(cs) - 1)) \X (0..(Len(cs) - 1)) : Intersects(At(cs, ij[1]), At(cs, ij[2]))}

\* no filter on the pairs of the query
CandidatesUnfiltered(cs, tags) == Query(cs)

\* the filter of the candidate pairs
Candidates(cs, tags) ==
    IF ~tags.is_none
    THEN {ij \in Query(cs) : At(tags.tags, ij[1]) # At(tags.tags, ij[2])}
    ELSE {ij \in Query(cs) : ij[1] # ij[2]}

\* the merge test without the case of equality
MergeTestStrict(c1, c2, thr) ==
    IntersectionArea(c1, c2) * thr[2] > thr[1] * Min2(Area(c1), Area(c2))

\* intersection >= threshold * min(cell1.area, cell2.area), threshold = num/den
MergeTest(c1, c2, thr) ==
    IntersectionArea(c1, c2) * thr[2] >= thr[1] * Min2(Area(c1), Area(c2))

\* an assertion that lets the empty collection through
HasCellsOrNone(n) == n >= 0

\* assert n_cells > 0
HasCells(n) == n > 0

\* repointing the entries of the first cell only
RepointFirst(resolved, r1, r2, new) ==
    [k \in 1..Len(resolved) |-> IF resolved[k] = r1 THEN new ELSE resolved[k]]

\* repointing to the first of the two cells, no index of a new cell
RepointToFirst(resolved, r1, r2, new) ==
    [k \in 1..Len(resolved) |-> IF resolved[k] \in {r1, r2} THEN r1 ELSE resolved[k]]

\* resolved_indices[np.isin(resolved_indices, [r1, r2])] = new
Repoint(resolved, r1, r2, new) ==
    [k \in 1..Len(resolved) |-> IF resolved[k] \in {r1, r2} THEN new ELSE resolved[k]]

\* the index map that keeps the indices of the merged cells
IndexMapUnmasked(uniq, n) == uniq

\* np.where(unique_indices < n_cells, unique_indices, -1)
IndexMap(uniq, n) == [k \in 1..Len(uniq) |-> IF uniq[k] < n THEN uniq[k] ELSE -1]

\* threshold values num/den; 1/2 is the default
DefaultThreshold == <<1, 2>>
Thresholds == {DefaultThreshold, <<1, 3>>}

\* input cells: polygons without holes, one run of MinLen to MaxLen blocks
CellShapes ==
    {Polygon(lo..hi, {}) : <<lo, hi>> \in
        {lh \in (0..(Width - 1)) \X (0..(Width - 1)) :
            lh[2] - lh[1] + 1 >= MinLen /\ lh[2] - lh[1] + 1 <= MaxLen}}

\* cells around the centre: runs of MinLen to MaxLen blocks from any block
Arc(start, len) == {(start + k) % RingSize : k \in 0..(len - 1)}
ArcShapes ==
    {Polygon(Arc(sl[1], sl[2]), {}) : sl \in Blocks \X (MinLen..MaxLen)}

\* patch tags; the first cell is of patch 0
PatchTags == {0, 1}

Lo(c) == CHOOSE a \in c.shell : \A b \in c.shell : a <= b
Hi(c) == CHOOSE a \in c.shell : \A b \in c.shell : a >= b

\* the input cells are listed from left to right (any pair of the loop may
\* be processed first, so the order of the list does not matter)
LeftToRight(cs) ==
    \A k \in 1..(Len(cs) - 1) :
        \/ Lo(cs[k]) < Lo(cs[k + 1])
        \/ Lo(cs[k]) = Lo(cs[k + 1]) /\ Hi(cs[k]) <= Hi(cs[k + 1])

\* cells of MaxLen blocks that cover the ring between them, the first one
\* from block 0, no block under more than two of them
AroundCentre(cs) ==
    /\ \A k \in 1..Len(cs) : Cardinality(cs[k].shell) = MaxLen
    /\ cs[1].shell = Arc(0, MaxLen)
    /\ UNION {cs[k].shell : k \in 1..Len(cs)} = Blocks
    /\ \A b \in Blocks : Cardinality({k \in 1..Len(cs) : b \in cs[k].shell}) <= 2

\* the parameters of the call other than the cells
SolveParams(thresholds) ==
    /\ threshold \in thresholds
    /\ patch_indices \in {NoPatchIndices}
                           \cup {PatchIndices(t) : t \in
                                    {f \in [1..n_cells -> PatchTags] :
                                        n_cells > 0 => f[1] = 0}}
    /\ return_indices = FALSE
    /\ resolved_indices = <<>> /\ conflicts = {} /\ absorbed = {}
    /\ pc = "start" /\ result = NoResult
    /\ CanonIdle /\ BaysorIdle /\ MaskIdle

RingInit ==
    /\ n_cells = RingCells
    /\ cells \in {cs \in [1..n_cells -> ArcShapes] : AroundCentre(cs)}
    /\ SolveParams({DefaultThreshold})
    /\ patch_indices = NoPatchIndices

SolveInit ==
    /\ n_cells \in 0..MaxCells
    /\ cells \in {cs \in [1..n_cells -> CellShapes] : LeftToRight(cs)}
    /\ SolveParams(Thresholds)

\* lines 31-43: the index array, the precondition, the candidate pairs
Start ==
    /\ pc = "start"
    /\ resolved_indices' = arange(n_cells)
    /\ IF HasCells(n_cells)
       THEN /\ conflicts' = Candidates(cells, patch_indices)
            /\ pc' = "loop"
            /\ result' = NoResult
       ELSE /\ conflicts' = {}
            /\ pc' = "raised"
            /\ result' = [kind |-> "raised", raised |-> "AssertionError",
                          message |-> "No cells was segmented, cannot continue"]
    /\ UNCHANGED <<cells, n_cells, threshold, patch_indices, return_indices,
                   absorbed, canonVars, baysorVars, maskVars>>

\* lines 46-56: the body of the loop for one candidate pair
ResolvePair(pair) ==
    LET resolved_i1 == At(resolved_indices, pair[1])
        resolved_i2 == At(resolved_indices, pair[2])
        cell1 == At(cells, resolved_i1)
        cell2 == At(cells, resolved_i2)
        cell == _ensure_polygon(Union(cell1, cell2))
    IN /\ conflicts' = conflicts \ {pair}
       /\ IF MergeTest(cell1, cell2, threshold)
          THEN IF IsEmpty(cell)
               THEN /\ pc' = "raised"
                    /\ result' = [kind |-> "raised", raised |-> "AssertionError",
                                  message |-> "Merged cell is empty"]
                    /\ UNCHANGED <<resolved_indices, cells, absorbed>>
               ELSE /\ resolved_indices' =
                          Repoint(resolved_indices, resolved_i1, resolved_i2, Len(cells))
                    /\ cells' = Append(cells, cell)
                    /\ absorbed' = absorbed \cup
                          {k - 1 : k \in {j \in 1..n_cells :
                                resolved_indices[j] \in {resolved_i1, resolved_i2}}}
                    /\ UNCHANGED <<pc, result>>
          ELSE UNCHANGED <<resolved_indices, cells, absorbed, pc, result>>
       /\ UNCHANGED <<n_cells, threshold, patch_indices, return_indices,
                      canonVars, baysorVars, maskVars>>

\* line 45: one iteration of the loop, on any pair not yet processed (the
\* order of the pairs is the spatial index's)
Resolve ==
    /\ pc = "loop"
    /\ \E pair \in conflicts : ResolvePair(pair)

\* line 45, when tree.query lists the pairs by ascending index of the
\* queried cell (the first of the pair), the partners of a cell in any order
ResolveInQueryOrder ==
    /\ pc = "loop"
    /\ \E pair \in {p \in conflicts : \A other \in conflicts : p[1] <= other[1]} :
          ResolvePair(pair)

\* lines 58-64: the cells still referenced, and their indices; the flag
\* return_indices of the call is read here and nowhere else
Return ==
    /\ pc = "loop"
    /\ conflicts = {}
    /\ return_indices' \in BOOLEAN
    /\ LET unique_indices == unique(resolved_indices)
           unique_cells == [k \in 1..Len(unique_indices) |-> At(cells, unique_indices[k])]
       IN result' = [kind |-> "returned",
                     cells |-> unique_cells,
                     index |-> unique_indices,
                     indices |-> IF return_indices'
                                 THEN IndexMap(unique_indices, n_cells)
                                 ELSE None]
    /\ pc' = "done"
    /\ UNCHANGED <<cells, n_cells, threshold, patch_indices,
                   resolved_indices, conflicts, absorbed, canonVars, baysorVars, maskVars>>

SolveNext == Start \/ Resolve \/ Return

SpecSolve == SolveInit /\ [][SolveNext]_vars

RingNext == Start \/ ResolveInQueryOrder \/ Return

\* the same operation on cells around the centre, pairs in query order
SpecRing == RingInit /\ [][RingNext]_vars

----------------------------------------------------------------------------
(* Claims about solve_conflicts *)

\* the input cells
Original(i) == At(cells, i)

\* area(c1 /\ c2) >= threshold * min(area(c1), area(c2)), as the claims state it
OverlapAtLeast(c1, c2, thr) ==
    Cardinality(Region(c1) \cap Region(c2)) * thr[2]
        >= thr[1] * (IF Area(c1) <= Area(c2) THEN Area(c1) ELSE Area(c2))

\* the two input cells are of different patches, or no patch is given
DifferentPatches(i, j) ==
    patch_indices.is_none \/ At(patch_indices.tags, i) # At(patch_indices.tags, j)

Returned == pc = "done" /\ result.kind = "returned"

\* the entries of a sequence that are not -1, and the number of those that are
NonNegative(s) == {s[k] : k \in {j \in 1..Len(s) : s[j] # -1}}
CountMinusOne(s) == Cardinality({k \in 1..Len(s) : s[k] = -1})

(* C1 as stated: the index map has one entry per original cell, entry i
   being i when cell i took part in no merge and -1 when it was absorbed. *)
C1_OneEntryPerOriginalCell ==
    (Returned /\ return_indices) =>
        /\ Len(result.indices) = n_cells
        /\ \A i \in 0..(n_cells - 1) :
              At(result.indices, i) = (IF i \in absorbed THEN -1 ELSE i)

(* C1 as amended: the index map has one entry per cell of the returned
   collection: the own index of each original cell that took part in no
   merge, in ascending order and next to that very cell, then one -1 for
   each merged cell. *)
C1_OneEntryPerReturnedCell ==
    (Returned /\ return_indices) =>
        /\ Len(result.indices) = Len(result.cells)
        /\ NonNegative(result.indices) = (0..(n_cells - 1)) \ absorbed
        /\ \A k \in 1..Len(result.indices) :
              IF k <= n_cells - Cardinality(absorbed)
              THEN /\ result.indices[k] >= 0
                   /\ result.cells[k] = Original(result.indices[k])
                   /\ \A j \in 1..(k - 1) : result.indices[j] < result.indices[k]
              ELSE result.indices[k] = -1
        /\ CountMinusOne(result.indices) =
              Cardinality({At(resolved_indices, i) : i \in absorbed})

C1_Witness ==
    /\ Returned /\ return_indices
    /\ n_cells = 3 /\ absorbed = {0, 1}
    /\ result.indices = <<2, -1>>

(* C2: two intersecting cells of different patches are returned as the one
   canonicalized union when their intersection area is at least threshold
   times the smaller area (equality included), and are both returned
   unchanged when it is below. *)
C2_TwoCells ==
    (Returned /\ n_cells = 2 /\ DifferentPatches(0, 1)
        /\ Intersects(Original(0), Original(1))) =>
        IF OverlapAtLeast(Original(0), Original(1), threshold)
        THEN result.cells = <<_ensure_polygon(Union(Original(0), Original(1)))>>
        ELSE result.cells = <<Original(0), Original(1)>>

\* the two cells overlap by exactly threshold times the smaller area
C2_Witness ==
    /\ Returned /\ n_cells = 2 /\ DifferentPatches(0, 1)
    /\ Cardinality(Region(Original(0)) \cap Region(Original(1))) * threshold[2]
          = threshold[1] * Min2(Area(Original(0)), Area(Original(1)))
    /\ Len(result.cells) = 1
    /\ Area(result.cells[1]) > Area(Original(0))

\* cells a, b, c form a chain: a-b and b-c overlap at or above the
\* threshold, a and c do not intersect, and every pair is a candidate
Chain(a, b, c) ==
    /\ n_cells = 3 /\ {a, b, c} = {0, 1, 2}
    /\ DifferentPatches(a, b) /\ DifferentPatches(b, c) /\ DifferentPatches(a, c)
    /\ Intersects(Original(a), Original(b))
    /\ Intersects(Original(b), Original(c))
    /\ OverlapAtLeast(Original(a), Original(b), threshold)
    /\ OverlapAtLeast(Original(b), Original(c), threshold)
    /\ ~Intersects(Original(a), Original(c))

(* C3 as stated: a chain of three cells is resolved into exactly one cell,
   in whatever order the pairs are processed. *)
C3_ChainMergesToOne ==
    (Returned /\ \E a, b, c \in 0..2 : Chain(a, b, c)) => Len(result.cells) = 1

(* C3 as amended: a chain of three cells A-B-C in which neither A nor C has
   a larger area than the middle cell B is resolved into exactly one cell,
   in whatever order the pairs are processed. *)
C3_ChainWithLargestMiddle ==
    (Returned /\ \E a, b, c \in 0..2 :
        /\ Chain(a, b, c)
        /\ Area(Original(a)) <= Area(Original(b))
        /\ Area(Original(c)) <= Area(Original(b))) =>
        /\ Len(result.cells) = 1
        /\ return_indices => result.indices = <<-1>>

C3_Witness ==
    /\ Returned
    /\ \E a, b, c \in 0..2 :
        /\ Chain(a, b, c)
        /\ Area(Original(a)) <= Area(Original(b))
        /\ Area(Original(c)) <= Area(Original(b))
    /\ Len(result.cells) = 1
    /\ Region(result.cells[1]) =
          Region(Original(0)) \cup Region(Original(1)) \cup Region(Original(2))

\* the original cells a returned cell stands for
Members_(k) == {i \in 0..(n_cells - 1) : At(resolved_indices, i) = result.index[k]}

\* two returned cells are conflict candidates: any two cells when no patch
\* is given, cells whose originals are all of different patches otherwise
CandidatePair(k, l) ==
    /\ k # l
    /\ \A i \in Members_(k), j \in Members_(l) : DifferentPatches(i, j)

(* C4: no two candidate cells of the returned collection overlap by
   threshold times the smaller area or more. *)
C4_LowOverlap ==
    Returned =>
        \A k, l \in 1..Len(result.cells) :
            CandidatePair(k, l) =>
                ~OverlapAtLeast(result.cells[k], result.cells[l], threshold)

(* C5: on an empty collection solve_conflicts raises and never returns. *)
C5_EmptyRaises ==
    n_cells = 0 =>
        /\ pc \in {"start", "raised"}
        /\ result.kind # "returned"
        /\ pc = "raised" => result.raised = "AssertionError"

C5_Witness ==
    /\ n_cells = 0 /\ pc = "raised"
    /\ result.message = "No cells was segmented, cannot continue"

----------------------------------------------------------------------------
(* baysor: one external process per patch directory, then resolve *)

Patches == 1..NumPatches

\* what subprocess.run hands back: the exit code and the two captured streams
ProcessResults ==
    {[returncode |-> 0, stdout |-> "", stderr |-> ""],
     [returncode |-> 1, stdout |-> "", stderr |-> "error"],
     [returncode |-> 1, stdout |-> "trace", stderr |-> ""],
     [returncode |-> 1, stdout |-> "trace", stderr |-> "error"]}

\* no process was run for the patch
NoProcess == [returncode |-> -1, stdout |-> "", stderr |-> ""]

\* the command line run in a patch directory
baysor_command == "baysor run -c config.toml transcripts.csv"

\* the patch is skipped whenever recover is set, artifact or not
RecoveredAlways(rec, exists) == rec

\* line 96: the patch is not run again
Recovered(rec, exists) == rec /\ exists

\* a failed process always raises
OnFailureRaise(frc) == "raised"

\* lines 123-126: a failed process is logged under force, raised otherwise
OnFailure(frc) == IF frc THEN "warned" ELSE "raised"

\* line 126: the exception of a failed process
ProcessError(p, res) ==
    [raised |-> "RuntimeError", patch |-> p, command |-> baysor_command,
     output |-> res.stdout]

\* lines 67-69: some patch directory holds segmentation_counts.loom
AnyLoom(lm) == \E p \in Patches : lm[p]

BaysorInit ==
    /\ force \in BOOLEAN /\ recover \in BOOLEAN /\ delete_cache \in BOOLEAN
    /\ loom0 \in [Patches -> BOOLEAN]
    /\ loom = loom0
    /\ dirs = [p \in Patches |-> TRUE]
    /\ status = [p \in Patches |-> "pending"]
    /\ calls = [p \in Patches |-> 0]
    /\ results = [p \in Patches |-> NoProcess]
    /\ bpc = "run" /\ error = NoError
    /\ CanonIdle /\ SolveIdle /\ MaskIdle

\* BaysorPatch.__call__ on one patch directory, the patches in any order
\* (line 64); an exception ends the batch
PatchCall ==
    /\ bpc = "run"
    /\ \E p \in Patches :
        /\ status[p] = "pending"
        /\ IF Recovered(recover, loom[p])
           THEN /\ status' = [status EXCEPT ![p] = "skipped"]
                /\ UNCHANGED <<calls, results, loom, bpc, error>>
           ELSE \E res \in ProcessResults :
                /\ calls' = [calls EXCEPT ![p] = @ + 1]
                /\ results' = [results EXCEPT ![p] = res]
                /\ IF res.returncode # 0
                   THEN /\ status' = [status EXCEPT ![p] = OnFailure(force)]
                        /\ loom' = loom
                        /\ IF OnFailure(force) = "raised"
                           THEN bpc' = "raised" /\ error' = ProcessError(p, res)
                           ELSE UNCHANGED <<bpc, error>>
                   ELSE /\ status' = [status EXCEPT ![p] = "ok"]
                        /\ loom' = [loom EXCEPT ![p] = TRUE]
                        /\ UNCHANGED <<bpc, error>>
    /\ UNCHANGED <<force, recover, delete_cache, loom0, dirs, canonVars, solveVars, maskVars>>

\* lines 66-69, once every patch was called
CheckForce ==
    /\ bpc = "run"
    /\ \A p \in Patches : status[p] # "pending"
    /\ IF force /\ ~AnyLoom(loom)
       THEN /\ bpc' = "raised"
            /\ error' = [raised |-> "AssertionError",
                         message |-> "Baysor failed on all patches"]
       ELSE bpc' = "resolve" /\ UNCHANGED error
    /\ UNCHANGED <<force, recover, delete_cache, loom, loom0, dirs, status, calls,
                   results, canonVars, solveVars, maskVars>>

\* lines 71-73: the patches are consolidated; resolve returns, or raises
\* and its exception leaves baysor
RunResolve ==
    /\ bpc = "resolve"
    /\ \/ bpc' = "cache" /\ UNCHANGED error
       \/ bpc' = "raised" /\ error' = [raised |-> "ResolveError"]
    /\ UNCHANGED <<force, recover, delete_cache, loom, loom0, dirs, status, calls,
                   results, canonVars, solveVars, maskVars>>

\* the patch directories are removed whatever delete_cache says
DeletesAlways(dc) == TRUE

\* line 75: if delete_cache
Deletes(dc) == dc

\* lines 75-77
DeleteCache ==
    /\ bpc = "cache"
    /\ bpc' = "done"
    /\ IF Deletes(delete_cache)
       THEN /\ dirs' = [p \in Patches |-> FALSE]
            /\ loom' = [p \in Patches |-> FALSE]
       ELSE UNCHANGED <<dirs, loom>>
    /\ UNCHANGED <<force, recover, delete_cache, loom0, status, calls, results,
                   error, canonVars, solveVars, maskVars>>

BaysorNext == PatchCall \/ CheckForce \/ RunResolve \/ DeleteCache

SpecBaysor == BaysorInit /\ [][BaysorNext]_vars

----------------------------------------------------------------------------
(* Claims about baysor *)

\* the patch had its artifact when the batch started, under recover
HadArtifact(p) == recover /\ loom0[p]

(* C8: the external process of a patch is invoked if and only if it is not
   the case that recover is set and the artifact of the patch exists; a
   patch skipped this way returns normally and the call leaves its
   directory as it was. *)
C8_InvokedUnlessRecovered ==
    \A p \in Patches :
        /\ status[p] = "pending" => calls[p] = 0
        /\ status[p] # "pending" =>
            /\ (calls[p] = 1) <=> ~HadArtifact(p)
            /\ (calls[p] = 0) <=> HadArtifact(p)
            /\ HadArtifact(p) =>
                /\ status[p] = "skipped"
                /\ results[p] = NoProcess
                /\ dirs[p] => loom[p] = loom0[p]

C8_Witness ==
    /\ bpc = "resolve"
    /\ \E p, q \in Patches :
        /\ HadArtifact(p) /\ status[p] = "skipped" /\ calls[p] = 0
        /\ ~HadArtifact(q) /\ status[q] = "ok" /\ calls[q] = 1

\* consolidation was started, or is the next statement
ResolveStarted == bpc \in {"resolve", "cache", "done"}

(* C9: under force, when the process of every patch failed, the batch ends
   in an error and resolve is never started; when the process of some patch
   succeeded, the batch does not end in an error.  Whatever the patch
   directories held at the start. *)
C9_ForceAllFailed ==
    force =>
        /\ (\A p \in Patches : status[p] = "warned") => ~ResolveStarted
        /\ (\E p \in Patches : status[p] = "ok") =>
              (bpc = "raised" => error.raised = "ResolveError")

(* C10: when the process of a patch exits non-zero, without force the call
   raises an error that carries the command and the captured standard
   output, and the batch reaches neither resolve nor the deletion of the
   cache; under force the call logs a warning and returns, and every other
   patch is still called. *)
C10_NonZeroExit ==
    \A p \in Patches :
        results[p].returncode > 0 =>
            IF force
            THEN /\ status[p] = "warned"
                 /\ error.raised # "RuntimeError"
                 /\ bpc # "run" => \A q \in Patches : status[q] # "pending"
            ELSE /\ status[p] = "raised"
                 /\ bpc = "raised"
                 /\ error = [raised |-> "RuntimeError", patch |-> p,
                             command |-> baysor_command,
                             output |-> results[p].stdout]
                 /\ ~ResolveStarted
                 /\ \A q \in Patches : dirs[q] /\ loom[q] = (loom0[q] \/ status[q] = "ok")

C10_Witness ==
    /\ ~force /\ bpc = "raised"
    /\ error.raised = "RuntimeError" /\ error.output = "trace"
    /\ \E p, q \in Patches :
        /\ status[p] = "raised" /\ results[p].stderr = "error"
        /\ status[q] = "pending"

(* C11: resolve starts only once every patch was called; a patch directory
   is deleted only after resolve has returned and only under delete_cache;
   a run that ends in an error, of a patch, of the check under force or of
   resolve, deletes no patch directory. *)
C11_PhasesInOrder ==
    /\ ResolveStarted => \A p \in Patches : status[p] # "pending"
    /\ (\E p \in Patches : ~dirs[p]) =>
          /\ bpc = "done" /\ delete_cache
          /\ error = NoError
          /\ \A q \in Patches : status[q] # "pending"
    /\ bpc \in {"run", "resolve", "cache", "raised"} => \A p \in Patches : dirs[p]
    /\ error # NoError <=> bpc = "raised"

\* the batch is over and the cache deleted, after a patch was skipped, a
\* patch failed under force and a patch succeeded
C11_Witness ==
    /\ bpc = "done" /\ delete_cache
    /\ \A p \in Patches : ~dirs[p]
    /\ {"skipped", "warned", "ok"} \subseteq {status[p] : p \in Patches}

----------------------------------------------------------------------------
(* Claims about the loop of solve_conflicts *)

\* the pair taken by a step of the loop
Taken(pair) == pair \in conflicts /\ pair \notin conflicts'

(* C12: a candidate pair whose two cells already resolve to the same cell
   is skipped: the step appends no cell and leaves resolved_indices as it
   was. *)
C12_SameRepresentativeSkipped ==
    [][(pc = "loop" /\ \E pair \in conflicts :
            /\ Taken(pair)
            /\ At(resolved_indices, pair[1]) = At(resolved_indices, pair[2]))
        => (cells' = cells /\ resolved_indices' = resolved_indices)]_vars

\* the indices of the input cells
Originals == 0..(n_cells - 1)

\* the candidate pairs as the claim states them
StatedCandidates ==
    IF patch_indices.is_none
    THEN {ij \in Originals \X Originals :
            ij[1] # ij[2] /\ Intersects(Original(ij[1]), Original(ij[2]))}
    ELSE {ij \in Originals \X Originals :
            /\ At(patch_indices.tags, ij[1]) # At(patch_indices.tags, ij[2])
            /\ Intersects(Original(ij[1]), Original(ij[2]))}

\* cell i intersects no cell of another patch
Secluded(i) ==
    \A j \in Originals :
        At(patch_indices.tags, j) # At(patch_indices.tags, i) =>
            ~Intersects(Original(i), Original(j))

(* C13: with patch tags the candidate pairs are the intersecting pairs of
   cells of different tags, and two cells of one tag that intersect no cell
   of another patch are both returned unchanged, whatever their overlap;
   without patch tags the candidate pairs are the intersecting pairs of
   distinct cells. *)
C13_CandidatePairs ==
    /\ [][(pc = "start" /\ pc' = "loop") => conflicts' = StatedCandidates]_vars
    /\ [](pc \in {"loop", "done"} => conflicts \subseteq StatedCandidates)
    /\ []((Returned /\ ~patch_indices.is_none) =>
            \A i \in Originals :
                Secluded(i) =>
                    /\ At(resolved_indices, i) = i
                    /\ \E k \in 1..Len(result.cells) :
                          result.index[k] = i /\ result.cells[k] = Original(i))

\* two cells of one patch, one lying within the other, are both returned
C13_Witness ==
    /\ Returned /\ ~patch_indices.is_none /\ n_cells = 2
    /\ At(patch_indices.tags, 0) = At(patch_indices.tags, 1)
    /\ Region(Original(0)) \subseteq Region(Original(1))
    /\ result.cells = <<Original(0), Original(1)>>

(* C15: while the loop runs and after it, every entry of resolved_indices
   is a position of the cell list; the entry of an original cell is its own
   index or the position of an appended cell; every original cell is
   represented by exactly one cell of the returned collection. *)
C15_ResolvedIndices ==
    pc \in {"loop", "done"} =>
        /\ Len(resolved_indices) = n_cells
        /\ \A i \in Originals :
              /\ At(resolved_indices, i) \in 0..(Len(cells) - 1)
              /\ At(resolved_indices, i) = i \/ At(resolved_indices, i) >= n_cells
        /\ Returned =>
              \A i \in Originals :
                  Cardinality({k \in 1..Len(result.index) :
                                  result.index[k] = At(resolved_indices, i)}) = 1

\* a cell that stands for itself next to two cells merged into a new one
C15_Witness ==
    /\ Returned /\ n_cells = 3
    /\ \E i, j, k \in Originals :
        /\ At(resolved_indices, i) = i
        /\ j # k
        /\ At(resolved_indices, j) = At(resolved_indices, k)
        /\ At(resolved_indices, j) >= n_cells

----------------------------------------------------------------------------
(* geometrize: a mask of labels turned into one polygon per cell.  The mask
   is a row of MaskLen pixels, pixel k lying on block k - 1; thin is the
   width, in pixels, of what the smoothing of radius smooth_radius erases. *)

Pixels == 1..MaskLen

\* mask.max()
MaskMax(m) == CHOOSE v \in Range(m) : \A w \in Range(m) : w <= v

\* the polygon of full height over a run of blocks
Box(run) == Polygon(run, {})

\* _contours(mask == cell_id): one polygon per connected component
_contours(m, cell_id) ==
    LET runs == Runs({k - 1 : k \in {j \in 1..Len(m) : m[j] = cell_id}})
    IN MultiPolygon([i \in 1..Len(runs) |-> Box(runs[i])])

\* cell.buffer(-r).buffer(2 * r).buffer(-r).simplify(tolerance): the
\* components no wider than what the radius erases are gone; the geometry
\* of what is left, an empty polygon when nothing is
Smooth(cell, w) ==
    LET kept == {i \in 1..Len(cell.geoms) : Cardinality(cell.geoms[i].shell) > w}
    IN FromRegion(UNION {Region(cell.geoms[i]) : i \in kept})

_smoothen_cell(cell, w) == _ensure_polygon(Smooth(cell, w))

\* a row of the data frame: its index and its geometry
Row(i, g) == [index |-> i, geometry |-> g]

\* no row is dropped
AllRows(rows) == rows

\* cells[~cells.is_empty]
NonEmptyRows(rows) == SelectSeq(rows, LAMBDA row : ~IsEmpty(row.geometry))

geometrize(m, w) ==
    LET max_cells == MaskMax(m)
    IN IF max_cells = 0 THEN <<>>
       ELSE NonEmptyRows([cell_id \in 1..max_cells |->
                Row(cell_id - 1, _smoothen_cell(_contours(m, cell_id), w))])

MaskInit ==
    /\ mask \in [Pixels -> 0..MaxLabel]
    /\ thin \in {0, 1}
    /\ geo_df = <<>> /\ gpc = "call"
    /\ CanonIdle /\ SolveIdle /\ BaysorIdle

Geometrize ==
    /\ gpc = "call"
    /\ geo_df' = geometrize(mask, thin)
    /\ gpc' = "returned"
    /\ UNCHANGED <<mask, thin, canonVars, solveVars, baysorVars>>

MaskNext == Geometrize

SpecMask == MaskInit /\ [][MaskNext]_vars

----------------------------------------------------------------------------
(* Claims about geometrize *)

\* the positive labels of the mask
Labels == {mask[k] : k \in Pixels} \ {0}

\* the pixels of a label
PixelsOf(l) == {k \in Pixels : mask[k] = l}

\* the label has a component that the smoothing leaves: more than thin
\* pixels in a row
Survives(l) ==
    \E k \in Pixels : \A d \in 0..thin : (k + d) \in PixelsOf(l)

(* C14: geometrize returns an empty collection when the mask has no
   positive label; otherwise it returns, by ascending label, exactly one
   polygon for each label of 1..max(mask) whose smoothed shape is not empty
   and none for the others: at most as many polygons as the mask has
   positive labels, and exactly as many when no shape becomes empty. *)
C14_OnePolygonPerLabel ==
    gpc = "returned" =>
        /\ Labels = {} => geo_df = <<>>
        /\ \A k \in 1..Len(geo_df) :
              /\ geo_df[k].index + 1 \in Labels
              /\ Survives(geo_df[k].index + 1)
              /\ IsPolygon(geo_df[k].geometry) /\ ~IsEmpty(geo_df[k].geometry)
              /\ geo_df[k].geometry.shell \subseteq
                    {p - 1 : p \in PixelsOf(geo_df[k].index + 1)}
              /\ \A j \in 1..(k - 1) : geo_df[j].index < geo_df[k].index
        /\ \A l \in Labels :
              Survives(l) => \E k \in 1..Len(geo_df) : geo_df[k].index + 1 = l
        /\ Len(geo_df) <= Cardinality(Labels)
        /\ (\A l \in Labels : Survives(l)) => Len(geo_df) = Cardinality(Labels)

\* labels 1 and 2 of the mask: the only component of label 1 is erased by
\* the smoothing, label 2 gives one polygon
C14_Witness ==
    /\ gpc = "returned" /\ thin = 1
    /\ Labels = {1, 2} /\ ~Survives(1) /\ Survives(2)
    /\ Len(geo_df) = 1 /\ geo_df[1].index = 1

====
